---- MODULE Spec2Model ----
(***************************************************************************)
(* Model of src/main.py (Vixip Studio): the positional extract / patch     *)
(* protocol (extract_content, apply_changes), the transform-mode stream    *)
(* loop with its fail-safe and final processing, and the session flow      *)
(* (upload, chat turns, transform runs) for one and for two sessions.      *)
(*                                                                         *)
(* A Python str is a sequence of one-character strings.  A document is a   *)
(* sequence of slides, a slide a sequence of shapes, a shape a record      *)
(* [has_text_frame, paragraphs], a paragraph the sequence of its runs'     *)
(* texts.  Python's zero-based indices are i-1 for the TLA+ index i.       *)
(***************************************************************************)
EXTENDS Integers, Sequences, FiniteSets, TLC

VARIABLES
    temp_pptx,        \* the stored source file "temp.pptx" (a document)
    raw_pptx_text,    \* st.session_state["raw_pptx_text"]
    received,         \* the fragments the stream has yielded so far
    thinking_buffer,  \* local of the transform run
    slide_content,    \* local of the transform run
    mode,             \* "THINKING" | "WRITING"
    pc,               \* position of the transform run / of the function check
    msgs,             \* st.warning / st.error / st.success shown by the run
    status_box,       \* content of the st.empty() placeholder
    opens,            \* number of Presentation("temp.pptx") calls of the run
    saves,            \* number of updated.save(out) calls of the run
    out,              \* the document behind the download button, or NoDoc
    prs,              \* function check: the document handed to apply_changes
    modified_text,    \* function check: the payload handed to apply_changes
    text1,            \* function check: first extraction
    text2,            \* function check: extraction of the patched document
    temp_loads,       \* whether Presentation("temp.pptx") succeeds
    file_uploaded,    \* st.session_state["file_uploaded"]
    chat_history,     \* st.session_state["chat_history"]
    uploaded,         \* history: the deck of this session's last valid upload
    run_count,        \* history: transform runs started in the session
    events,           \* history: script runs the user has triggered
    sessions          \* two-session model: the state of each session

vars == <<temp_pptx, raw_pptx_text, received, thinking_buffer, slide_content,
          mode, pc, msgs, status_box, opens, saves, out,
          prs, modified_text, text1, text2,
          temp_loads, file_uploaded, chat_history, uploaded, run_count, events,
          sessions>>

streamVars == <<received, thinking_buffer, slide_content, mode, msgs,
                status_box, opens, saves, out>>

funcVars == <<prs, modified_text, text1, text2>>

sessionVars == <<temp_loads, file_uploaded, chat_history, uploaded, run_count, events,
                 sessions>>

NoDoc == "None"

\* the session in which one upload has succeeded and nothing else happened:
\* the state the transform run and the function checks start from
UploadedSession ==
    /\ temp_loads = TRUE
    /\ file_uploaded = TRUE
    /\ chat_history = <<>>
    /\ uploaded = temp_pptx
    /\ run_count = 0
    /\ events = 1
    /\ sessions = <<>>

(***************************************************************************)
(* Bounds                                                                  *)
(***************************************************************************)
MaxChunks == 4   \* fragments per stream
MaxItems == 2    \* paragraphs / text-less shapes per generated document
MaxLines == 2    \* lines per generated payload
MaxEvents == 3   \* script runs a user triggers in one session

(***************************************************************************)
(* Python str operations                                                   *)
(***************************************************************************)
NL == "\n"

\* str.isspace() / regex \s on the characters the model uses
IsSpace(c) == c \in {" ", "\t", NL}

IsDigit(c) == c \in {"0", "1", "2", "3", "4", "5", "6", "7", "8", "9"}

\* s.find(t, i-1) + 1 : leftmost start >= i of t in s, 0 when there is none
RECURSIVE FindFrom(_, _, _)
FindFrom(s, t, i) ==
    IF i + Len(t) - 1 > Len(s) THEN 0
    ELSE IF SubSeq(s, i, i + Len(t) - 1) = t THEN i
    ELSE FindFrom(s, t, i + 1)

\* t in s
Contains(s, t) == FindFrom(s, t, 1) # 0

\* s.split(sep): non-overlapping occurrences, left to right
RECURSIVE Split(_, _)
Split(s, sep) ==
    LET i == FindFrom(s, sep, 1)
    IN  IF i = 0 THEN <<s>>
        ELSE <<SubSeq(s, 1, i - 1)>> \o Split(SubSeq(s, i + Len(sep), Len(s)), sep)

\* sep.join(parts)
RECURSIVE Join(_, _)
Join(sep, parts) ==
    IF Len(parts) = 0 THEN <<>>
    ELSE IF Len(parts) = 1 THEN parts[1]
    ELSE parts[1] \o sep \o Join(sep, Tail(parts))

RECURSIVE LStrip(_)
LStrip(s) == IF Len(s) > 0 /\ IsSpace(s[1]) THEN LStrip(Tail(s)) ELSE s

RECURSIVE RStrip(_)
RStrip(s) ==
    IF Len(s) > 0 /\ IsSpace(s[Len(s)]) THEN RStrip(SubSeq(s, 1, Len(s) - 1)) ELSE s

\* s.strip()
Strip(s) == RStrip(LStrip(s))

\* "".join(parts)
RECURSIVE Concat(_)
Concat(parts) == IF Len(parts) = 0 THEN <<>> ELSE parts[1] \o Concat(Tail(parts))

DigitChar(d) == <<"0", "1", "2", "3", "4", "5", "6", "7", "8", "9">>[d + 1]

DigitVal(c) == CHOOSE d \in 0..9 : DigitChar(d) = c

\* f"{n}" for a non-negative int
RECURSIVE IntToStr(_)
IntToStr(n) == IF n < 10 THEN <<DigitChar(n)>> ELSE IntToStr(n \div 10) \o <<DigitChar(n % 10)>>

\* int(s) for a string of digits
RECURSIVE StrToInt(_)
StrToInt(s) ==
    IF Len(s) = 0 THEN 0
    ELSE 10 * StrToInt(SubSeq(s, 1, Len(s) - 1)) + DigitVal(s[Len(s)])

(***************************************************************************)
(* Configuration                                                           *)
(***************************************************************************)
SEPARATOR ==
    <<"@", "@", "@", "_", "S", "T", "A", "R", "T", "_", "S", "L", "I", "D", "E",
      "_", "C", "O", "N", "T", "E", "N", "T", "_", "@", "@", "@">>

(***************************************************************************)
(* extract_content                                                         *)
(***************************************************************************)
\* f"{{S{s_idx}:Sh{sh_idx}:P{p_idx}}} || {text}"
FormatLine(s_idx, sh_idx, p_idx, text) ==
    <<"{", "S">> \o IntToStr(s_idx) \o <<":", "S", "h">> \o IntToStr(sh_idx)
        \o <<":", "P">> \o IntToStr(p_idx) \o <<"}", " ", "|", "|", " ">> \o text

\* "".join(run.text for run in paragraph.runs).strip()
ParagraphText(paragraph) == Strip(Concat(paragraph))

\* the inner loop over shape.text_frame.paragraphs, from paragraph p on
RECURSIVE ExtractParagraphs(_, _, _, _)
ExtractParagraphs(paragraphs, s, sh, p) ==
    IF p > Len(paragraphs) THEN <<>>
    ELSE LET text == ParagraphText(paragraphs[p])
         IN  (IF text # <<>> THEN <<FormatLine(s - 1, sh - 1, p - 1, text)>> ELSE <<>>)
                 \o ExtractParagraphs(paragraphs, s, sh, p + 1)

\* the loop over slide.shapes, from shape sh on
RECURSIVE ExtractShapes(_, _, _)
ExtractShapes(shapes, s, sh) ==
    IF sh > Len(shapes) THEN <<>>
    ELSE (IF ~shapes[sh].has_text_frame THEN <<>>
          ELSE ExtractParagraphs(shapes[sh].paragraphs, s, sh, 1))
             \o ExtractShapes(shapes, s, sh + 1)

\* the loop over prs.slides, from slide s on: extracted_lines
RECURSIVE ExtractSlides(_, _)
ExtractSlides(slides, s) ==
    IF s > Len(slides) THEN <<>>
    ELSE ExtractShapes(slides[s], s, 1) \o ExtractSlides(slides, s + 1)

\* the text extract_content returns for a document that loads
extract_content(doc) == Join(<<NL>>, ExtractSlides(doc, 1))

(***************************************************************************)
(* apply_changes                                                           *)
(***************************************************************************)
RECURSIVE SkipDigits(_, _)
SkipDigits(s, i) == IF i <= Len(s) /\ IsDigit(s[i]) THEN SkipDigits(s, i + 1) ELSE i

RECURSIVE SkipSpace(_, _)
SkipSpace(s, i) == IF i <= Len(s) /\ IsSpace(s[i]) THEN SkipSpace(s, i + 1) ELSE i

LitAt(s, i, t) == i + Len(t) - 1 <= Len(s) /\ SubSeq(s, i, i + Len(t) - 1) = t

\* mutant: the replacement text ends at the next "||"
DotStar_UpToPipes(s, k) ==
    LET n == FindFrom(s, <<"|", "|">>, k)
    IN  IF k > Len(s) THEN <<>>
        ELSE IF n = 0 THEN SubSeq(s, k, Len(s)) ELSE SubSeq(s, k, n - 1)

\* (.*) from position k: everything up to the next line feed
DotStar(s, k) ==
    LET n == FindFrom(s, <<NL>>, k)
    IN  IF k > Len(s) THEN <<>>
        ELSE IF n = 0 THEN SubSeq(s, k, Len(s)) ELSE SubSeq(s, k, n - 1)

\* the pattern (\{S\d+:Sh\d+:P\d+\})\s*\|\|\s*(.*) tried at position i;
\* every quantifier is followed by a character it cannot match, so the
\* greedy choice is the only one
MatchAt(line, i) ==
    LET a == i + 2
        b == SkipDigits(line, a)
        c == b + 3
        d == SkipDigits(line, c)
        e == d + 2
        f == SkipDigits(line, e)
        g == SkipSpace(line, f + 1)
        h == SkipSpace(line, g + 2)
    IN  IF /\ LitAt(line, i, <<"{", "S">>)
           /\ b > a
           /\ LitAt(line, b, <<":", "S", "h">>)
           /\ d > c
           /\ LitAt(line, d, <<":", "P">>)
           /\ f > e
           /\ LitAt(line, f, <<"}">>)
           /\ LitAt(line, g, <<"|", "|">>)
        THEN [ok |-> TRUE, group1 |-> SubSeq(line, i, f), group2 |-> DotStar(line, h)]
        ELSE [ok |-> FALSE, group1 |-> <<>>, group2 |-> <<>>]

\* mutant: re.match, the pattern tried at the start of the line only
re_search_AtLineStart(line) == MatchAt(line, 1)

\* re.search: the leftmost position at which the pattern matches
RECURSIVE SearchFrom(_, _)
SearchFrom(line, i) ==
    IF i > Len(line) THEN [ok |-> FALSE, group1 |-> <<>>, group2 |-> <<>>]
    ELSE IF MatchAt(line, i).ok THEN MatchAt(line, i)
    ELSE SearchFrom(line, i + 1)

re_search(line) == SearchFrom(line, 1)

\* uid.strip("{}")
RECURSIVE StripBraces(_)
StripBraces(s) ==
    IF Len(s) > 0 /\ s[1] \in {"{", "}"} THEN StripBraces(Tail(s))
    ELSE IF Len(s) > 0 /\ s[Len(s)] \in {"{", "}"} THEN StripBraces(SubSeq(s, 1, Len(s) - 1))
    ELSE s

\* (s_idx, sh_idx, p_idx) of a matched uid
ParseKey(uid) ==
    LET parts == Split(StripBraces(uid), <<":">>)
    IN  <<StrToInt(SubSeq(parts[1], 2, Len(parts[1]))),
          StrToInt(SubSeq(parts[2], 3, Len(parts[2]))),
          StrToInt(SubSeq(parts[3], 2, Len(parts[3])))>>

\* mutant: an existing key keeps its first text (setdefault)
Put_FirstWins(updates, key, new_text) ==
    [k \in DOMAIN updates \cup {key} |->
        IF k \in DOMAIN updates THEN updates[k] ELSE new_text]

\* updates[key] = new_text
Put(updates, key, new_text) ==
    [k \in DOMAIN updates \cup {key} |-> IF k = key THEN new_text ELSE updates[k]]

\* mutant: a line that does not match ends the loop (break for continue)
RECURSIVE ParseUpdates_StopAtBadLine(_, _)
ParseUpdates_StopAtBadLine(lines, updates) ==
    IF Len(lines) = 0 THEN updates
    ELSE LET match == re_search(lines[1])
         IN  IF match.ok
             THEN ParseUpdates_StopAtBadLine(Tail(lines),
                        Put(updates, ParseKey(match.group1), Strip(match.group2)))
             ELSE updates

\* the first loop of apply_changes over the lines that are left
RECURSIVE ParseUpdates(_, _)
ParseUpdates(lines, updates) ==
    IF Len(lines) = 0 THEN updates
    ELSE LET match == re_search(lines[1])
         IN  IF match.ok
             THEN ParseUpdates(Tail(lines),
                               Put(updates, ParseKey(match.group1), Strip(match.group2)))
             ELSE ParseUpdates(Tail(lines), updates)

EmptyUpdates == [k \in {} |-> <<>>]

\* the dict built from modified_text
Updates(text) == ParseUpdates(Split(text, <<NL>>), EmptyUpdates)

\* mutant: the runs after the first keep their text
PatchParagraph_KeepsLaterRuns(paragraph, new_text) ==
    IF Len(paragraph) > 0
    THEN [paragraph EXCEPT ![1] = new_text]
    ELSE <<new_text>>

\* runs[0].text = new_text, later runs "", or add_run() on a run-less paragraph
PatchParagraph(paragraph, new_text) ==
    IF Len(paragraph) > 0
    THEN [i \in 1..Len(paragraph) |-> IF i = 1 THEN new_text ELSE <<>>]
    ELSE <<new_text>>

\* mutant: the lookup forgets the paragraph index
ApplyUpdates_IgnoreParagraphIndex(doc, updates) ==
    [s \in 1..Len(doc) |->
        [sh \in 1..Len(doc[s]) |->
            IF ~doc[s][sh].has_text_frame THEN doc[s][sh]
            ELSE [doc[s][sh] EXCEPT !.paragraphs =
                    [p \in 1..Len(doc[s][sh].paragraphs) |->
                        IF \E k \in DOMAIN updates : k[1] = s - 1 /\ k[2] = sh - 1
                        THEN PatchParagraph(doc[s][sh].paragraphs[p],
                                 updates[CHOOSE k \in DOMAIN updates :
                                            k[1] = s - 1 /\ k[2] = sh - 1])
                        ELSE doc[s][sh].paragraphs[p]]]]]

\* the second loop of apply_changes
ApplyUpdates(doc, updates) ==
    [s \in 1..Len(doc) |->
        [sh \in 1..Len(doc[s]) |->
            IF ~doc[s][sh].has_text_frame THEN doc[s][sh]
            ELSE [doc[s][sh] EXCEPT !.paragraphs =
                    [p \in 1..Len(doc[s][sh].paragraphs) |->
                        IF <<s - 1, sh - 1, p - 1>> \in DOMAIN updates
                        THEN PatchParagraph(doc[s][sh].paragraphs[p],
                                            updates[<<s - 1, sh - 1, p - 1>>])
                        ELSE doc[s][sh].paragraphs[p]]]]]

apply_changes(doc, text) == ApplyUpdates(doc, Updates(text))

(***************************************************************************)
(* Documents                                                               *)
(***************************************************************************)
TextShape(paragraphs) == [has_text_frame |-> TRUE, paragraphs |-> paragraphs]

\* a shape without a text frame (a picture, a connector)
Picture == [has_text_frame |-> FALSE, paragraphs |-> <<>>]

\* the deck built by one more authoring step: a paragraph added to the last
\* text shape ("para"), a new text shape ("shape"), a new slide ("slide"),
\* or a shape without text frame ("pic")
AddItem(doc, item) ==
    LET n == Len(doc)
        m == IF n = 0 THEN 0 ELSE Len(doc[n])
    IN  IF item.kind = "slide" \/ n = 0
        THEN Append(doc, <<IF item.kind = "pic" THEN Picture ELSE TextShape(<<item.runs>>)>>)
        ELSE IF item.kind = "pic"
        THEN [doc EXCEPT ![n] = Append(@, Picture)]
        ELSE IF item.kind = "shape" \/ m = 0 \/ ~doc[n][m].has_text_frame
        THEN [doc EXCEPT ![n] = Append(@, TextShape(<<item.runs>>))]
        ELSE [doc EXCEPT ![n][m].paragraphs = Append(@, item.runs)]

RECURSIVE Build(_, _)
Build(doc, items) == IF Len(items) = 0 THEN doc ELSE Build(AddItem(doc, items[1]), Tail(items))

ItemsOf(paragraphs) ==
    {[kind |-> k, runs |-> r] : k \in {"para", "shape", "slide"}, r \in paragraphs}
        \cup {[kind |-> "pic", runs |-> <<>>]}

\* the decks of at most n authoring steps over the given paragraphs
DocsOf(paragraphs, n) ==
    UNION {{Build(<<>>, items) : items \in [1..k -> ItemsOf(paragraphs)]} : k \in 1..n}

(***************************************************************************)
(* The transform run: stream loop, fail-safe, final processing             *)
(***************************************************************************)
\* mutant: the delimiter is looked for in the new fragment only
StreamStep_PerFragment(st, content) ==
    IF st.mode = "THINKING"
    THEN LET buffer == st.thinking_buffer \o content
         IN  IF Contains(content, SEPARATOR)
             THEN [mode |-> "WRITING",
                   thinking_buffer |-> buffer,
                   slide_content |-> st.slide_content \o Split(buffer, SEPARATOR)[2]]
             ELSE [st EXCEPT !.thinking_buffer = buffer]
    ELSE [st EXCEPT !.slide_content = @ \o content]

\* one iteration of "for chunk in stream" on the locals st
StreamStep(st, content) ==
    IF st.mode = "THINKING"
    THEN LET buffer == st.thinking_buffer \o content
         IN  IF Contains(buffer, SEPARATOR)
             THEN [mode |-> "WRITING",
                   thinking_buffer |-> buffer,
                   slide_content |-> st.slide_content \o Split(buffer, SEPARATOR)[2]]
             ELSE [st EXCEPT !.thinking_buffer = buffer]
    ELSE [st EXCEPT !.slide_content = @ \o content]

\* the locals before the loop
StreamStart == [mode |-> "THINKING", thinking_buffer |-> <<>>, slide_content |-> <<>>]

\* mutant: the filter forgets the brace test
RECURSIVE ValidLines_NoBraceTest(_)
ValidLines_NoBraceTest(lines) ==
    IF Len(lines) = 0 THEN <<>>
    ELSE (IF Contains(lines[1], <<"|", "|">>) THEN <<lines[1]>> ELSE <<>>)
             \o ValidLines_NoBraceTest(Tail(lines))

\* valid_lines = [l for l in lines if "||" in l and "{" in l]
RECURSIVE ValidLines(_)
ValidLines(lines) ==
    IF Len(lines) = 0 THEN <<>>
    ELSE (IF Contains(lines[1], <<"|", "|">>) /\ Contains(lines[1], <<"{">>)
          THEN <<lines[1]>> ELSE <<>>) \o ValidLines(Tail(lines))

\* the fail-safe block: the payload and the message it leaves
FailSafe(st) ==
    IF st.mode # "THINKING"
    THEN [slide_content |-> st.slide_content, msgs |-> {}]
    ELSE IF Contains(st.thinking_buffer, <<"{", "S", "0">>)
              \/ Contains(st.thinking_buffer, <<"|", "|">>)
    THEN LET valid_lines == ValidLines(Split(st.thinking_buffer, <<NL>>))
         IN  IF Len(valid_lines) > 0
             THEN [slide_content |-> Join(<<NL>>, valid_lines), msgs |-> {"warning_recovered"}]
             ELSE [slide_content |-> st.slide_content, msgs |-> {"error_no_valid_lines"}]
    ELSE [slide_content |-> st.slide_content, msgs |-> {"error_no_updates"}]

\* mutant: the patch pass runs whatever the payload
PatchRuns_Always(content) == TRUE

\* if slide_content.strip():
PatchRuns(content) == Strip(content) # <<>>

Locals == [mode |-> mode, thinking_buffer |-> thinking_buffer, slide_content |-> slide_content]

\* the stream yields one more fragment
Chunk(content) ==
    /\ pc = "stream"
    /\ Len(received) < MaxChunks
    /\ LET st == StreamStep(Locals, content)
       IN  /\ mode' = st.mode
           /\ thinking_buffer' = st.thinking_buffer
           /\ slide_content' = st.slide_content
           /\ status_box' = IF mode = "THINKING" /\ st.mode = "WRITING"
                            THEN "generating" ELSE status_box
    /\ received' = Append(received, content)
    /\ UNCHANGED <<temp_pptx, raw_pptx_text, pc, msgs, opens, saves, out, funcVars,
                   sessionVars>>

\* mutant: the patched deck is saved over the stored source
StoredAfterSave_Overwrite(stored, updated) == updated

\* updated.save(out) writes a BytesIO: "temp.pptx" keeps its content
StoredAfterSave(stored, updated) == stored

\* the stream is exhausted: fail-safe, then final processing
StreamEnd ==
    /\ pc = "stream"
    /\ LET fs == FailSafe(Locals)
       IN  /\ slide_content' = fs.slide_content
           /\ IF ~PatchRuns(fs.slide_content)
              THEN /\ msgs' = msgs \cup fs.msgs
                   /\ pc' = "done"
                   /\ UNCHANGED <<opens, saves, out, status_box, temp_pptx>>
              ELSE IF ~temp_loads
              THEN \* Presentation("temp.pptx") raises: the except branch
                   /\ opens' = opens + 1
                   /\ status_box' = "error"
                   /\ msgs' = msgs \cup fs.msgs
                   /\ pc' = "open_failed"
                   /\ UNCHANGED <<saves, out, temp_pptx>>
              ELSE /\ opens' = opens + 1
                   /\ out' = apply_changes(temp_pptx, fs.slide_content)
                   /\ saves' = saves + 1
                   /\ temp_pptx' = StoredAfterSave(temp_pptx, out')
                   /\ status_box' = "empty"
                   /\ msgs' = msgs \cup fs.msgs \cup {"success"}
                   /\ pc' = "done"
    /\ UNCHANGED <<raw_pptx_text, received, thinking_buffer, mode, funcVars, sessionVars>>

\* mutant: the buffers filled before the failure are carried into the
\* fail-safe and the final processing
StreamRaise_CarriesBuffers ==
    /\ pc = "stream"
    /\ LET fs == FailSafe(Locals)
       IN  /\ slide_content' = fs.slide_content
           /\ IF PatchRuns(fs.slide_content)
              THEN /\ opens' = opens + 1
                   /\ out' = apply_changes(temp_pptx, fs.slide_content)
                   /\ saves' = saves + 1
                   /\ msgs' = msgs \cup fs.msgs \cup {"success"}
              ELSE /\ msgs' = msgs \cup fs.msgs
                   /\ UNCHANGED <<opens, saves, out>>
    /\ status_box' = "error"
    /\ pc' = "failed"
    /\ UNCHANGED <<temp_pptx, raw_pptx_text, received, thinking_buffer, mode, funcVars,
                   sessionVars>>

\* the stream (or the ollama.chat call that starts it) raises: the exception
\* leaves the try block, and only status_box.error runs
StreamRaise ==
    /\ pc = "stream"
    /\ status_box' = "error"
    /\ pc' = "failed"
    /\ UNCHANGED <<temp_pptx, raw_pptx_text, received, thinking_buffer, slide_content,
                   mode, msgs, opens, saves, out, funcVars, sessionVars>>

(***************************************************************************)
(* Inputs of the transform run                                             *)
(***************************************************************************)
SepHead == SubSeq(SEPARATOR, 1, 6)
SepMid == SubSeq(SEPARATOR, 7, 20)
SepTail == SubSeq(SEPARATOR, 21, Len(SEPARATOR))

Hi == <<"H", "i">>

\* the fragments a model may send: the delimiter in three pieces, narration,
\* a line feed, an edit line, a brace, a double pipe, and a reply that
\* repeats the delimiter
Frags ==
    { SepHead, SepMid, SepTail,
      <<"o", "k">>, <<NL>>, <<"{", "x", "}">>, <<"|", "|">>,
      FormatLine(0, 0, 0, Hi),
      SEPARATOR \o FormatLine(0, 0, 1, Hi) \o <<NL>> \o SEPARATOR \o FormatLine(0, 0, 0, Hi) }

\* the uploaded decks of the transform run
RunDocs == { <<<<TextShape(<<<<<<"A">>>>, <<<<"B">>, <<" ", "C">>>>>>)>>>> }

Init ==
    /\ temp_pptx \in RunDocs
    /\ raw_pptx_text = extract_content(temp_pptx)
    /\ received = <<>>
    /\ thinking_buffer = <<>>
    /\ slide_content = <<>>
    /\ mode = "THINKING"
    /\ pc = "stream"
    /\ msgs = {}
    /\ status_box = "working"
    /\ opens = 0
    /\ saves = 0
    /\ out = NoDoc
    /\ prs = NoDoc
    /\ modified_text = <<>>
    /\ text1 = <<>>
    /\ text2 = <<>>
    /\ UploadedSession

Next ==
    \/ \E content \in Frags : Chunk(content)
    \/ StreamEnd

Spec == Init /\ [][Next]_vars

(***************************************************************************)
(* Claims about the transform run (checked under Spec)                     *)
(***************************************************************************)
\* the whole text the stream has delivered
StreamText == Concat(received)

Errors == {"error_no_valid_lines", "error_no_updates"}

HasBraceAndPipes(l) == Contains(l, <<"{">>) /\ Contains(l, <<"|", "|">>)

\* the text that follows the first occurrence of the delimiter
AfterFirstSeparator(t) == SubSeq(t, FindFrom(t, SEPARATOR, 1) + Len(SEPARATOR), Len(t))

\* C1: whenever the text received so far contains the delimiter, the payload is
\* all the text after the first occurrence of the delimiter, also when the
\* delimiter occurs again later.
C1_PayloadIsTextAfterFirstDelimiter ==
    (pc \in {"stream", "done"} /\ Contains(StreamText, SEPARATOR))
        => slide_content = AfterFirstSeparator(StreamText)

\* the run of the loop and the fail-safe over a whole fragment sequence
RECURSIVE RunLoop(_, _)
RunLoop(st, frags) ==
    IF Len(frags) = 0 THEN st ELSE RunLoop(StreamStep(st, frags[1]), Tail(frags))

ResultOf(frags) ==
    LET st == RunLoop(StreamStart, frags)
    IN  [mode |-> st.mode, payload |-> FailSafe(st).slide_content, msgs |-> FailSafe(st).msgs]

\* C2: the final mode, payload and outcome of a stream are those of the same
\* text delivered as one single fragment.
C2_ChunkingIndependent ==
    pc = "done" =>
        [mode |-> mode, payload |-> slide_content, msgs |-> msgs \ {"success"}]
            = ResultOf(<<StreamText>>)

\* C3: a stream that ends without the delimiter but with at least one line
\* holding both "{" and "||" yields exactly those lines, in order, joined by
\* line feeds, and is flagged recovered (a warning, no error).
C3_FailSafeRecovery ==
    (/\ pc = "done"
     /\ mode = "THINKING"
     /\ \E i \in DOMAIN Split(thinking_buffer, <<NL>>) :
            HasBraceAndPipes(Split(thinking_buffer, <<NL>>)[i]))
        => /\ slide_content
                = Join(<<NL>>, SelectSeq(Split(thinking_buffer, <<NL>>), HasBraceAndPipes))
           /\ "warning_recovered" \in msgs
           /\ msgs \cap Errors = {}

\* recovery happened and dropped at least one narration line
C3_Witness ==
    /\ pc = "done"
    /\ mode = "THINKING"
    /\ "warning_recovered" \in msgs
    /\ Len(Split(slide_content, <<NL>>)) < Len(Split(thinking_buffer, <<NL>>))
    /\ Len(Split(slide_content, <<NL>>)) > 1

\* C4: a completed stream whose final payload holds no line matching the
\* positional pattern ends with an error shown and never with success.
C4_NoEditsNeverSuccess ==
    (pc = "done" /\ DOMAIN Updates(slide_content) = {})
        => /\ "success" \notin msgs
           /\ msgs \cap Errors # {}

\* C5: a stream that ends with no delimiter and no line holding both "{" and
\* "||" surfaces an error, leaves the payload empty and runs no patch pass:
\* no open, no save, no download.
C5_EmptyPayloadSignalled ==
    (/\ pc = "done"
     /\ ~Contains(StreamText, SEPARATOR)
     /\ \A i \in DOMAIN Split(StreamText, <<NL>>) :
            ~HasBraceAndPipes(Split(StreamText, <<NL>>)[i]))
        => /\ msgs \cap Errors # {}
           /\ "success" \notin msgs
           /\ slide_content = <<>>
           /\ opens = 0
           /\ saves = 0
           /\ out = NoDoc

\* narration with a brace on one line and a double pipe on another: no line
\* qualifies, the error is shown
C5_Witness ==
    /\ pc = "done"
    /\ ~Contains(StreamText, SEPARATOR)
    /\ Contains(StreamText, <<"{">>)
    /\ Contains(StreamText, <<"|", "|">>)
    /\ "error_no_valid_lines" \in msgs
    /\ out = NoDoc

\* C14: after every fragment the mode is WRITING exactly when the fragments
\* received so far, concatenated, contain the delimiter; the mode never goes
\* back to THINKING; while the stream is read in THINKING mode the payload is
\* empty; and once in WRITING mode the preamble buffer is never modified and
\* each fragment is appended to the payload.
C14_ModeFollowsDelimiter ==
    /\ [](pc \in {"stream", "done"} =>
            (mode = "WRITING" <=> Contains(StreamText, SEPARATOR)))
    /\ [](pc = "stream" /\ mode = "THINKING" => slide_content = <<>>)
    /\ [][mode = "WRITING" =>
            /\ mode' = "WRITING"
            /\ thinking_buffer' = thinking_buffer
            /\ received' # received =>
                   slide_content' = slide_content \o received'[Len(received')]]_vars

\* the delimiter arrived in three pieces, and a fragment followed it
C14_Witness ==
    /\ pc = "stream"
    /\ mode = "WRITING"
    /\ Len(received) = 4
    /\ SubSeq(received, 1, 3) = <<SepHead, SepMid, SepTail>>
    /\ slide_content = received[4]

(***************************************************************************)
(* apply_changes on generated payloads (SpecPatch)                         *)
(***************************************************************************)
\* "{S<s>:Sh<sh>:P<p>}"
IdOf(s_idx, sh_idx, p_idx) ==
    SubSeq(FormatLine(s_idx, sh_idx, p_idx, <<>>), 1,
           Len(FormatLine(s_idx, sh_idx, p_idx, <<>>)) - 4)

\* the lines a payload is made of
PatchLines ==
    { FormatLine(0, 0, 0, <<"X">>),
      FormatLine(0, 0, 0, <<"Y">>),
      IdOf(0, 0, 1) \o <<"|", "|", "Z">>,
      FormatLine(1, 0, 0, <<" ", "W", " ">>),
      FormatLine(0, 1, 0, <<"V">>),
      FormatLine(2, 0, 0, <<"U">>),
      FormatLine(0, 0, 9, <<"R">>),
      <<"{", "S", "0", ":", "S", "h", "0", ":", "P", "0", " ", "|", "|", " ", "T">>,
      IdOf(0, 0, 0) \o <<" ", "|", " ", "Q">>,
      <<"{", "S", "0", "0", ":", "S", "h", "0", ":", "P", "0", "1", "}", " ", "|", "|", " ", "M">>,
      <<"o", "k">>,
      <<>>,
      <<"s", "e", "e", " ">> \o FormatLine(0, 2, 0, <<"N">>),
      FormatLine(0, 2, 0, <<"a", " ", "|", "|", " ", "b">>) }

Payloads ==
    UNION {{Join(<<NL>>, lines) : lines \in [1..k -> PatchLines]} : k \in 0..MaxLines}

Para(runs) == [kind |-> "para", runs |-> runs]
Shape(runs) == [kind |-> "shape", runs |-> runs]
Slide(runs) == [kind |-> "slide", runs |-> runs]
Pic == [kind |-> "pic", runs |-> <<>>]

\* the decks the payloads are applied to
PatchDocs ==
    { Build(<<>>, <<Slide(<<<<"a">>, <<"b">>>>), Para(<<>>), Pic, Shape(<<<<"c">>>>),
                    Slide(<<<<"d">>, <<>>, <<"e">>>>)>>),
      Build(<<>>, <<Pic, Shape(<<<<" ">>>>), Para(<<<<"f">>>>)>>) }

InitPatch ==
    /\ temp_pptx \in PatchDocs
    /\ raw_pptx_text = extract_content(temp_pptx)
    /\ modified_text \in Payloads
    /\ pc = "start"
    /\ prs = temp_pptx
    /\ text1 = <<>>
    /\ text2 = <<>>
    /\ UploadedSession
    /\ received = <<>>
    /\ thinking_buffer = <<>>
    /\ slide_content = <<>>
    /\ mode = "THINKING"
    /\ msgs = {}
    /\ status_box = "working"
    /\ opens = 0
    /\ saves = 0
    /\ out = NoDoc

\* updated = apply_changes(prs, modified_text)
PatchApply ==
    /\ pc = "start"
    /\ prs' = apply_changes(prs, modified_text)
    /\ pc' = "patched"
    /\ UNCHANGED <<temp_pptx, raw_pptx_text, modified_text, text1, text2, streamVars, sessionVars>>

NextPatch == PatchApply

SpecPatch == InitPatch /\ [][NextPatch]_vars

(***************************************************************************)
(* Claims about apply_changes (checked under SpecPatch)                    *)
(***************************************************************************)
\* the (slide, shape, paragraph) keys of the paragraphs of a document
ParagraphKeys(doc) ==
    UNION { UNION { {<<s - 1, sh - 1, p - 1>> : p \in 1..Len(doc[s][sh].paragraphs)}
                    : sh \in {x \in 1..Len(doc[s]) : doc[s][x].has_text_frame} }
            : s \in 1..Len(doc) }

ParagraphAt(doc, k) == doc[k[1] + 1][k[2] + 1].paragraphs[k[3] + 1]

PayloadLines == Split(modified_text, <<NL>>)

\* the payload lines that match the pattern with key k
LinesFor(k) ==
    LET lines == PayloadLines
    IN  {i \in DOMAIN lines :
            LET m == re_search(lines[i])
            IN  m.ok /\ ParseKey(m.group1) = k}

MaxOf(S) == CHOOSE x \in S : \A y \in S : y <= x

\* C7: a paragraph whose key is not in the parsed edit mapping keeps its runs
\* (count and text); shapes without a text frame are untouched.
C7_NonAddressedPreserved ==
    pc = "patched" =>
        /\ Len(prs) = Len(temp_pptx)
        /\ \A s \in 1..Len(temp_pptx) :
              /\ Len(prs[s]) = Len(temp_pptx[s])
              /\ \A sh \in 1..Len(temp_pptx[s]) :
                    ~temp_pptx[s][sh].has_text_frame => prs[s][sh] = temp_pptx[s][sh]
        /\ \A k \in ParagraphKeys(temp_pptx) \ DOMAIN Updates(modified_text) :
              ParagraphAt(prs, k) = ParagraphAt(temp_pptx, k)

\* one paragraph of a shape was rewritten, a sibling with text was not addressed
C7_Witness ==
    /\ pc = "patched"
    /\ \E k \in ParagraphKeys(temp_pptx) \cap DOMAIN Updates(modified_text) :
          /\ ParagraphAt(prs, k) # ParagraphAt(temp_pptx, k)
          /\ \E j \in ParagraphKeys(temp_pptx) \ DOMAIN Updates(modified_text) :
                /\ j[1] = k[1]
                /\ j[2] = k[2]
                /\ Len(ParagraphAt(prs, j)) > 0

\* a line that yields an edit of an existing paragraph of the document
LineIsValid(doc, l) ==
    re_search(l).ok /\ ParseKey(re_search(l).group1) \in ParagraphKeys(doc)

ValidPayload(doc, lines) ==
    LET Valid(l) == LineIsValid(doc, l)
    IN  Join(<<NL>>, SelectSeq(lines, Valid))

\* C8: lines that do not match the pattern, or that address no paragraph of
\* the document, change nothing: the result is that of the valid lines alone.
C8_BadLinesSkipped ==
    pc = "patched" => prs = apply_changes(temp_pptx, ValidPayload(temp_pptx, PayloadLines))

\* a line without closing brace, then a valid line that was applied
C8_Witness ==
    /\ pc = "patched"
    /\ Len(PayloadLines) = 2
    /\ ~re_search(PayloadLines[1]).ok
    /\ Contains(PayloadLines[1], <<"{", "S", "0">>)
    /\ LineIsValid(temp_pptx, PayloadLines[2])
    /\ prs # temp_pptx

\* C9: when several matching lines carry the same ID, the paragraph's text is
\* the replacement text of the last of them.
C9_LastWriteWins ==
    pc = "patched" =>
        \A k \in ParagraphKeys(temp_pptx) :
            LinesFor(k) # {} =>
                Concat(ParagraphAt(prs, k))
                    = Strip(re_search(PayloadLines[MaxOf(LinesFor(k))]).group2)

\* two lines with the same ID and different texts were applied
C9_Witness ==
    /\ pc = "patched"
    /\ \E k \in ParagraphKeys(temp_pptx) :
          /\ Cardinality(LinesFor(k)) = 2
          /\ re_search(PayloadLines[1]).group2 # re_search(PayloadLines[2]).group2
          /\ Concat(ParagraphAt(prs, k)) = Strip(re_search(PayloadLines[2]).group2)

\* the replacement text the payload holds for key k: the trimmed text of the
\* last matching line with that key
ReplacementFor(k) == Strip(re_search(PayloadLines[MaxOf(LinesFor(k))]).group2)

\* C15: after the patch pass every addressed paragraph has the (trimmed)
\* replacement text in its first run and the empty text in every later run;
\* it has as many runs as before when it had at least one, and exactly one
\* when it had none; its concatenated text is the replacement text; and the
\* numbers of slides, of shapes per slide and of paragraphs per shape are
\* those of the source.
C15_PatchedParagraphShape ==
    pc = "patched" =>
        /\ Len(prs) = Len(temp_pptx)
        /\ \A s \in 1..Len(temp_pptx) :
              /\ Len(prs[s]) = Len(temp_pptx[s])
              /\ \A sh \in 1..Len(temp_pptx[s]) :
                    /\ prs[s][sh].has_text_frame = temp_pptx[s][sh].has_text_frame
                    /\ Len(prs[s][sh].paragraphs) = Len(temp_pptx[s][sh].paragraphs)
        /\ \A k \in ParagraphKeys(temp_pptx) :
              LinesFor(k) # {} =>
                  LET old == ParagraphAt(temp_pptx, k)
                      new == ParagraphAt(prs, k)
                      text == ReplacementFor(k)
                  IN  /\ Len(new) = IF Len(old) >= 1 THEN Len(old) ELSE 1
                      /\ new[1] = text
                      /\ \A i \in 2..Len(new) : new[i] = <<>>
                      /\ Concat(new) = text

\* one payload rewrote a paragraph of two runs and a paragraph without runs
C15_Witness ==
    /\ pc = "patched"
    /\ \E k \in ParagraphKeys(temp_pptx) :
          /\ LinesFor(k) # {}
          /\ Len(ParagraphAt(temp_pptx, k)) >= 2
          /\ ParagraphAt(temp_pptx, k)[2] # <<>>
    /\ \E k \in ParagraphKeys(temp_pptx) :
          /\ LinesFor(k) # {}
          /\ Len(ParagraphAt(temp_pptx, k)) = 0
          /\ Len(ParagraphAt(prs, k)) = 1

\* the positions of a line at which the pattern matches
MatchPositions(l) == {j \in 1..Len(l) : MatchAt(l, j).ok}

\* the match at the leftmost of those positions
LeftmostMatch(l) ==
    LET positions == MatchPositions(l)
    IN  MatchAt(l, CHOOSE j \in positions : \A j2 \in positions : j <= j2)

\* the payload lines in which the pattern occurs somewhere, with key k
LinesNaming(k) ==
    LET lines == PayloadLines
    IN  {i \in DOMAIN lines :
            /\ MatchPositions(lines[i]) # {}
            /\ ParseKey(LeftmostMatch(lines[i]).group1) = k}

ChangedKeys == {k \in ParagraphKeys(temp_pptx) : ParagraphAt(prs, k) # ParagraphAt(temp_pptx, k)}

\* C19 (as stated): a paragraph is changed only by a line that starts with
\* its ID followed by "||"; a line in which the ID and "||" come after other
\* text changes no paragraph.
C19_OnlyLinesStartingWithId ==
    pc = "patched" =>
        \A k \in ChangedKeys :
            \E i \in DOMAIN PayloadLines :
                /\ MatchAt(PayloadLines[i], 1).ok
                /\ ParseKey(MatchAt(PayloadLines[i], 1).group1) = k

\* C19 (amended): a line yields an edit when the pattern occurs anywhere in
\* it: the leftmost occurrence gives the key and the replacement text, also
\* when other text precedes the ID.  A paragraph named by no such line is
\* unchanged, a paragraph named by such lines carries the text of the last of
\* them, and the paragraphs changed are no more than the lines with an
\* occurrence: each line yields at most one edit.
C19_LinesContainingIdAreEdits ==
    pc = "patched" =>
        /\ \A k \in ParagraphKeys(temp_pptx) :
              LET naming == LinesNaming(k)
              IN  IF naming = {}
                  THEN ParagraphAt(prs, k) = ParagraphAt(temp_pptx, k)
                  ELSE Concat(ParagraphAt(prs, k))
                         = Strip(LeftmostMatch(PayloadLines[MaxOf(naming)]).group2)
        /\ Cardinality(ChangedKeys)
               <= Cardinality({i \in DOMAIN PayloadLines : MatchPositions(PayloadLines[i]) # {}})

\* a line with text before the ID rewrote the paragraph it names
C19_Witness ==
    /\ pc = "patched"
    /\ \E i \in DOMAIN PayloadLines :
          /\ ~MatchAt(PayloadLines[i], 1).ok
          /\ MatchPositions(PayloadLines[i]) # {}
          /\ ParseKey(LeftmostMatch(PayloadLines[i]).group1) \in ChangedKeys

\* the text of a line after its first "||"
AfterFirstPipes(l) == SubSeq(l, FindFrom(l, <<"|", "|">>, 1) + 2, Len(l))

\* the last line naming k starts with the ID, and its replacement text
\* holds a "||" of its own
PipesInReplacement(k) ==
    LET naming == LinesNaming(k)
    IN  /\ naming # {}
        /\ LET l == PayloadLines[MaxOf(naming)]
           IN  /\ MatchAt(l, 1).ok
               /\ Contains(AfterFirstPipes(l), <<"|", "|">>)

\* C20 (as stated): when the replacement text of an edit line holds a "||",
\* the text applied to the paragraph is not the full trimmed text after the
\* first "||" of the line.
C20_PipesCorruptTheEdit ==
    pc = "patched" =>
        \A k \in ParagraphKeys(temp_pptx) :
            PipesInReplacement(k) =>
                Concat(ParagraphAt(prs, k))
                    # Strip(AfterFirstPipes(PayloadLines[MaxOf(LinesNaming(k))]))

\* C20 (amended): when the replacement text of an edit line holds a "||",
\* the text applied to the paragraph is the full trimmed text after the first
\* "||" of the line, the later "||" included.
C20_PipesKeptInTheEdit ==
    pc = "patched" =>
        \A k \in ParagraphKeys(temp_pptx) :
            PipesInReplacement(k) =>
                Concat(ParagraphAt(prs, k))
                    = Strip(AfterFirstPipes(PayloadLines[MaxOf(LinesNaming(k))]))

\* an edit line whose replacement text holds a "||" was applied, and the
\* paragraph now holds the "||"
C20_Witness ==
    /\ pc = "patched"
    /\ \E k \in ChangedKeys :
          /\ PipesInReplacement(k)
          /\ Contains(Concat(ParagraphAt(prs, k)), <<"|", "|">>)

(***************************************************************************)
(* Extract, patch with the emitted lines, extract again (SpecRoundTrip)    *)
(***************************************************************************)
\* the paragraphs of the generated decks, as run texts: no run, a blank run,
\* one run, text spread over two runs with outer blanks, text that has "||",
\* text that looks like an edit line, text with a line feed inside a run
RoundTripParagraphs ==
    { <<>>,
      <<<<" ">>>>,
      <<<<"a">>>>,
      <<<<" ", "a">>, <<"b", " ">>>>,
      <<<<"|", "|", "b">>>>,
      <<FormatLine(0, 0, 1, <<"z">>)>>,
      <<<<"a", NL, "b">>>> }

InitRoundTrip ==
    /\ temp_pptx \in DocsOf(RoundTripParagraphs, MaxItems)
    /\ raw_pptx_text = <<>>
    /\ pc = "start"
    /\ prs = NoDoc
    /\ modified_text = <<>>
    /\ text1 = <<>>
    /\ text2 = <<>>
    /\ UploadedSession
    /\ received = <<>>
    /\ thinking_buffer = <<>>
    /\ slide_content = <<>>
    /\ mode = "THINKING"
    /\ msgs = {}
    /\ status_box = "working"
    /\ opens = 0
    /\ saves = 0
    /\ out = NoDoc

\* prs, text = extract_content("temp.pptx")
Extract ==
    /\ pc = "start"
    /\ prs' = temp_pptx
    /\ text1' = extract_content(temp_pptx)
    /\ raw_pptx_text' = text1'
    /\ pc' = "extracted"
    /\ UNCHANGED <<temp_pptx, modified_text, text2, streamVars, sessionVars>>

\* apply_changes(prs, text) with exactly the emitted text
ApplyExtracted ==
    /\ pc = "extracted"
    /\ modified_text' = text1
    /\ prs' = apply_changes(prs, text1)
    /\ pc' = "patched"
    /\ UNCHANGED <<temp_pptx, raw_pptx_text, text1, text2, streamVars, sessionVars>>

\* extract_content of the patched document
ReExtract ==
    /\ pc = "patched"
    /\ text2' = extract_content(prs)
    /\ pc' = "reextracted"
    /\ UNCHANGED <<temp_pptx, raw_pptx_text, prs, modified_text, text1, streamVars, sessionVars>>

NextRoundTrip == Extract \/ ApplyExtracted \/ ReExtract

SpecRoundTrip == InitRoundTrip /\ [][NextRoundTrip]_vars

\* the keys of the paragraphs whose trimmed text is not empty
NonEmptyKeys(doc) == {k \in ParagraphKeys(doc) : ParagraphText(ParagraphAt(doc, k)) # <<>>}

\* document order of keys
KeyBefore(j, k) ==
    \/ j[1] < k[1]
    \/ j[1] = k[1] /\ j[2] < k[2]
    \/ j[1] = k[1] /\ j[2] = k[2] /\ j[3] < k[3]

\* the position of key k among the non-empty paragraphs, in document order
RankOf(doc, k) == 1 + Cardinality({j \in NonEmptyKeys(doc) : KeyBefore(j, k)})

\* C6: for a document with at least one non-empty paragraph, extracting,
\* applying exactly the emitted lines and extracting again gives the text of
\* the first extraction.
C6_RoundTripIdentity ==
    (pc = "reextracted" /\ NonEmptyKeys(temp_pptx) # {}) => text2 = text1

\* C10: the extracted text has exactly one line per non-empty paragraph, in
\* document order, each made of the paragraph's zero-based indices and its
\* trimmed text; hence no two lines carry the same ID.
C10_OneLinePerParagraph ==
    pc = "extracted" =>
        LET lines == IF text1 = <<>> THEN <<>> ELSE Split(text1, <<NL>>)
        IN  /\ Len(lines) = Cardinality(NonEmptyKeys(temp_pptx))
            /\ \A k \in NonEmptyKeys(temp_pptx) :
                  lines[RankOf(temp_pptx, k)]
                      = FormatLine(k[1], k[2], k[3], ParagraphText(ParagraphAt(temp_pptx, k)))
            /\ \A i, j \in DOMAIN lines :
                  (re_search(lines[i]).ok /\ re_search(lines[j]).ok /\ i # j)
                      => re_search(lines[i]).group1 # re_search(lines[j]).group1

(***************************************************************************)
(* One session: upload, "Upload New File", chat turns and transform runs.  *)
(* Every user interaction starts one script run; the run's page and its    *)
(* locals start empty, the session state and "temp.pptx" persist.          *)
(***************************************************************************)
\* what str(e) reads when the document could not be loaded
LoadError == <<"e", "r", "r">>

\* mutant: a failed load hands back the lines of the document
LoadContent_KeepsLines(file) ==
    [loaded |-> file.parses /\ file.traverses,
     prs |-> IF file.parses /\ file.traverses THEN file.doc ELSE NoDoc,
     text |-> extract_content(file.doc)]

\* extract_content("temp.pptx") with its try/except: (prs, text) or (None, str(e))
LoadContent(file) ==
    IF file.parses /\ file.traverses
    THEN [loaded |-> TRUE, prs |-> file.doc, text |-> extract_content(file.doc)]
    ELSE [loaded |-> FALSE, prs |-> NoDoc, text |-> LoadError]

\* mutant: the session state is set whatever extract_content returned
UploadOutcome_NoTest(r, raw, flag) == [raw_pptx_text |-> r.text, file_uploaded |-> TRUE]

\* if prs: raw_pptx_text = text; file_uploaded = True
UploadOutcome(r, raw, flag) ==
    IF r.loaded
    THEN [raw_pptx_text |-> r.text, file_uploaded |-> TRUE]
    ELSE [raw_pptx_text |-> raw, file_uploaded |-> flag]

\* no script run is in progress
Idle == pc \in {"idle", "done", "failed", "open_failed", "chat_failed", "load_failed"}

\* a script run starts: nothing on the page, no locals
FreshRun ==
    /\ received' = <<>>
    /\ thinking_buffer' = <<>>
    /\ slide_content' = <<>>
    /\ mode' = "THINKING"
    /\ msgs' = {}
    /\ opens' = 0
    /\ saves' = 0
    /\ out' = NoDoc

\* the user puts a file into the uploader
Upload(file) ==
    /\ Idle
    /\ ~file_uploaded
    /\ events < MaxEvents
    /\ temp_pptx' = file.doc
    /\ temp_loads' = file.parses
    /\ LET r == LoadContent(file)
           o == UploadOutcome(r, raw_pptx_text, file_uploaded)
       IN  /\ prs' = r.prs
           /\ text1' = r.text
           /\ raw_pptx_text' = o.raw_pptx_text
           /\ file_uploaded' = o.file_uploaded
           /\ uploaded' = IF r.loaded THEN file.doc ELSE uploaded
           /\ pc' = IF r.loaded THEN "idle" ELSE "load_failed"
    /\ FreshRun
    /\ status_box' = "none"
    /\ events' = events + 1
    /\ UNCHANGED <<modified_text, text2, chat_history, run_count, sessions>>

\* the sidebar button "Upload New File"
UploadNew ==
    /\ Idle
    /\ file_uploaded
    /\ events < MaxEvents
    /\ file_uploaded' = FALSE
    /\ raw_pptx_text' = <<>>
    /\ pc' = "idle"
    /\ FreshRun
    /\ status_box' = "none"
    /\ events' = events + 1
    /\ UNCHANGED <<temp_pptx, temp_loads, chat_history, uploaded, run_count, sessions,
                   funcVars>>

\* the user sends a chat prompt: the user message is stored, the stream starts
ChatStart(prompt) ==
    /\ Idle
    /\ file_uploaded
    /\ events < MaxEvents
    /\ chat_history' = Append(chat_history, [role |-> "user", content |-> prompt])
    /\ pc' = "chat"
    /\ FreshRun
    /\ status_box' = "connecting"
    /\ events' = events + 1
    /\ UNCHANGED <<temp_pptx, temp_loads, raw_pptx_text, file_uploaded, uploaded,
                   run_count, sessions, funcVars>>

\* stream_with_initial_loader yields one more fragment to st.write_stream
ChatChunk(content) ==
    /\ pc = "chat"
    /\ Len(received) < MaxChunks
    /\ received' = Append(received, content)
    /\ status_box' = "empty"
    /\ UNCHANGED <<temp_pptx, raw_pptx_text, thinking_buffer, slide_content, mode, pc,
                   msgs, opens, saves, out, funcVars, sessionVars>>

\* the chat stream is exhausted: st.write_stream returns the whole reply
ChatEnd ==
    /\ pc = "chat"
    /\ status_box' = IF received = <<>> THEN "error" ELSE status_box
    /\ chat_history' = Append(chat_history,
                              [role |-> "assistant", content |-> Concat(received)])
    /\ pc' = "idle"
    /\ UNCHANGED <<temp_pptx, raw_pptx_text, received, thinking_buffer, slide_content,
                   mode, msgs, opens, saves, out, funcVars,
                   temp_loads, file_uploaded, uploaded, run_count, events, sessions>>

\* the chat stream raises: the generator catches the exception, shows it and
\* ends, so st.write_stream returns what was yielded before
ChatRaise ==
    /\ pc = "chat"
    /\ status_box' = "error"
    /\ chat_history' = Append(chat_history,
                              [role |-> "assistant", content |-> Concat(received)])
    /\ pc' = "chat_failed"
    /\ UNCHANGED <<temp_pptx, raw_pptx_text, received, thinking_buffer, slide_content,
                   mode, msgs, opens, saves, out, funcVars,
                   temp_loads, file_uploaded, uploaded, run_count, events, sessions>>

\* the button "Run Transformation"
RunTransformation(instruction) ==
    /\ Idle
    /\ file_uploaded
    /\ events < MaxEvents
    /\ FreshRun
    /\ events' = events + 1
    /\ IF instruction = <<>>
       THEN /\ pc' = "idle"
            /\ status_box' = "none"
            /\ UNCHANGED run_count
       ELSE /\ pc' = "stream"
            /\ status_box' = "working"
            /\ run_count' = run_count + 1
    /\ UNCHANGED <<temp_pptx, temp_loads, raw_pptx_text, file_uploaded, chat_history,
                   uploaded, sessions, funcVars>>

\* the decks a user uploads
SessionDocs ==
    RunDocs \cup { <<<<TextShape(<<<<<<"D">>>>, <<<<"E">>>>>>)>>>> }

\* the files a user uploads: decks, a file that is no presentation, and a
\* deck whose traversal raises
UploadFiles ==
    {[parses |-> TRUE, traverses |-> TRUE, doc |-> d] : d \in SessionDocs}
    \cup {[parses |-> FALSE, traverses |-> FALSE, doc |-> <<>>]}
    \cup {[parses |-> TRUE, traverses |-> FALSE, doc |-> d] : d \in RunDocs}

\* the fragments of a session's transform streams: the delimiter with an edit
\* line for the first paragraph, and an edit line for the second paragraph
SessionFrags ==
    { SEPARATOR \o FormatLine(0, 0, 0, Hi) \o <<NL>>, FormatLine(0, 0, 1, Hi) \o <<NL>> }

ChatFrags == { <<"o", "k">> }

Prompts == { <<"q">> }

Instructions == { <<>>, <<"g", "o">> }

InitSession ==
    /\ temp_pptx = <<>>
    /\ temp_loads = FALSE
    /\ raw_pptx_text = <<>>
    /\ file_uploaded = FALSE
    /\ chat_history = <<>>
    /\ uploaded = <<>>
    /\ run_count = 0
    /\ events = 0
    /\ sessions = <<>>
    /\ pc = "idle"
    /\ received = <<>>
    /\ thinking_buffer = <<>>
    /\ slide_content = <<>>
    /\ mode = "THINKING"
    /\ msgs = {}
    /\ status_box = "none"
    /\ opens = 0
    /\ saves = 0
    /\ out = NoDoc
    /\ prs = NoDoc
    /\ modified_text = <<>>
    /\ text1 = <<>>
    /\ text2 = <<>>

NextSession ==
    \/ \E file \in UploadFiles : Upload(file)
    \/ UploadNew
    \/ \E prompt \in Prompts : ChatStart(prompt)
    \/ \E content \in ChatFrags : ChatChunk(content)
    \/ ChatEnd
    \/ ChatRaise
    \/ \E instruction \in Instructions : RunTransformation(instruction)
    \/ \E content \in SessionFrags : Chunk(content)
    \/ StreamEnd
    \/ StreamRaise

SpecSession == InitSession /\ [][NextSession]_vars

(***************************************************************************)
(* Claims about one session                                                *)
(***************************************************************************)
\* C11: when the transform stream raises, after any number of fragments and
\* before or after the delimiter, the run shows only the error: no fail-safe
\* message and no success, the stored source is not opened, nothing is
\* patched or serialized, no download is offered, and the step leaves
\* raw_pptx_text, chat_history, file_uploaded and the stored source as they
\* were.
C11_StreamFailureAbandonsRun ==
    /\ [](pc = "failed" =>
            /\ msgs = {}
            /\ opens = 0
            /\ saves = 0
            /\ status_box = "error"
            /\ out = NoDoc)
    /\ [][pc = "stream" /\ pc' = "failed" =>
            /\ raw_pptx_text' = raw_pptx_text
            /\ chat_history' = chat_history
            /\ file_uploaded' = file_uploaded
            /\ temp_pptx' = temp_pptx]_vars

\* the stream fails after the delimiter, with payload already accumulated, in
\* a session that has a chat history
C11_Witness ==
    /\ pc = "failed"
    /\ mode = "WRITING"
    /\ Strip(slide_content) # <<>>
    /\ Len(received) >= 2
    /\ chat_history # <<>>

\* C12: when the chat stream fails after it has yielded some fragments, the
\* partial output is discarded: the failing step appends no assistant message
\* to chat_history and leaves the earlier entries as they were.
C12_ChatFailureDiscardsPartial ==
    [][pc = "chat" /\ pc' = "chat_failed" /\ received # <<>> =>
            chat_history' = chat_history]_vars

\* C13: when the uploaded file cannot be loaded (it is no presentation, or
\* its traversal raises part-way), extract_content returns no document and
\* no extracted lines, only the error text; the step leaves file_uploaded
\* false and raw_pptx_text at its previous value, and neither a chat turn
\* nor a transform run is ever in progress while file_uploaded is false.
C13_LoadFailureKeepsSession ==
    /\ [](pc = "load_failed" =>
            /\ text1 = LoadError
            /\ prs = NoDoc
            /\ ~file_uploaded)
    /\ [][pc' = "load_failed" /\ events' # events =>
            /\ raw_pptx_text' = raw_pptx_text
            /\ file_uploaded' = file_uploaded]_vars
    /\ [](pc \in {"chat", "stream"} => file_uploaded)

\* a deck whose traversal raises is uploaded after an earlier deck had been
\* loaded and dropped with "Upload New File"
C13_Witness ==
    /\ pc = "load_failed"
    /\ temp_pptx # <<>>
    /\ uploaded # <<>>
    /\ events = 3

\* C16: every successful patch pass opens the stored source once and
\* serializes once; the deck offered for download by the k-th run is the
\* uploaded deck with that run's payload applied, whatever the earlier runs
\* did; and no step of a transform run changes the stored source or
\* raw_pptx_text, so the stored source stays the deck that was uploaded.
C16_EveryRunStartsFromTheSource ==
    /\ [](pc = "done" /\ "success" \in msgs =>
            /\ opens = 1
            /\ saves = 1
            /\ out = apply_changes(uploaded, slide_content))
    /\ [](file_uploaded => temp_pptx = uploaded)
    /\ [][pc = "stream" =>
            /\ temp_pptx' = temp_pptx
            /\ raw_pptx_text' = raw_pptx_text]_vars

\* the second transform run of a session ended with a download that differs
\* from the uploaded deck
C16_Witness ==
    /\ pc = "done"
    /\ run_count = 2
    /\ "success" \in msgs
    /\ opens = 1
    /\ temp_pptx = uploaded
    /\ apply_changes(uploaded, slide_content) # uploaded

\* C17: within one session, under any sequence of uploads (loadable or
\* not), "Upload New File", chat turns and transform runs: whenever
\* file_uploaded is true, the stored source loads and raw_pptx_text is the
\* extraction of its current content.
C17_TextMatchesStoredSource ==
    /\ file_uploaded => temp_loads /\ raw_pptx_text = extract_content(temp_pptx)
    /\ pc \in {"stream", "done"} => file_uploaded

\* a deck was uploaded, a chat turn was answered and a transform run patched
\* the deck
C17_Witness ==
    /\ file_uploaded
    /\ chat_history # <<>>
    /\ pc = "done"
    /\ "success" \in msgs
    /\ raw_pptx_text # <<>>

(***************************************************************************)
(* Two sessions on one server.  Each session has its own session state;    *)
(* the path "temp.pptx" is the same file for both.  A step is one script   *)
(* run of one session, seen at the moments it writes or opens the file.    *)
(***************************************************************************)
SessionIds == {1, 2}

\* the session state of a new session, with the history of what it uploaded
\* and what its patch passes opened
NewSession ==
    [file_uploaded |-> FALSE, raw_pptx_text |-> <<>>, uploaded |-> <<>>,
     events |-> 0, patched |-> FALSE, opened |-> <<>>, out |-> <<>>, error |-> FALSE]

\* session s puts a file into the uploader
SessionUpload(s, file) ==
    /\ ~sessions[s].file_uploaded
    /\ sessions[s].events < MaxEvents
    /\ temp_pptx' = file.doc
    /\ temp_loads' = file.parses
    /\ LET r == LoadContent(file)
           o == UploadOutcome(r, sessions[s].raw_pptx_text, sessions[s].file_uploaded)
       IN  sessions' = [sessions EXCEPT ![s] =
                          [@ EXCEPT !.raw_pptx_text = o.raw_pptx_text,
                                    !.file_uploaded = o.file_uploaded,
                                    !.uploaded = IF r.loaded THEN file.doc ELSE @,
                                    !.events = @ + 1,
                                    !.patched = FALSE,
                                    !.error = FALSE]]
    /\ UNCHANGED <<raw_pptx_text, pc, streamVars, funcVars,
                   file_uploaded, chat_history, uploaded, run_count, events>>

\* session s presses "Upload New File"
SessionUploadNew(s) ==
    /\ sessions[s].file_uploaded
    /\ sessions[s].events < MaxEvents
    /\ sessions' = [sessions EXCEPT ![s] =
                       [@ EXCEPT !.raw_pptx_text = <<>>,
                                 !.file_uploaded = FALSE,
                                 !.events = @ + 1,
                                 !.patched = FALSE,
                                 !.error = FALSE]]
    /\ UNCHANGED <<temp_pptx, temp_loads, raw_pptx_text, pc, streamVars, funcVars,
                   file_uploaded, chat_history, uploaded, run_count, events>>

\* a transform run of session s reaches its final processing with the
\* payload content
SessionPatch(s, content) ==
    /\ sessions[s].file_uploaded
    /\ sessions[s].events < MaxEvents
    /\ PatchRuns(content)
    /\ sessions' = [sessions EXCEPT ![s] =
                       IF temp_loads
                       THEN [@ EXCEPT !.events = @ + 1,
                                      !.patched = TRUE,
                                      !.opened = temp_pptx,
                                      !.out = apply_changes(temp_pptx, content),
                                      !.error = FALSE]
                       ELSE [@ EXCEPT !.events = @ + 1,
                                      !.patched = FALSE,
                                      !.error = TRUE]]
    /\ UNCHANGED <<temp_pptx, temp_loads, raw_pptx_text, pc, streamVars, funcVars,
                   file_uploaded, chat_history, uploaded, run_count, events>>

\* the payloads the transform runs of the two sessions end with
SessionPayloads == { FormatLine(0, 0, 0, Hi), FormatLine(0, 0, 1, Hi) }

InitTwoSessions ==
    /\ temp_pptx = <<>>
    /\ temp_loads = FALSE
    /\ sessions = [s \in SessionIds |-> NewSession]
    /\ raw_pptx_text = <<>>
    /\ file_uploaded = FALSE
    /\ chat_history = <<>>
    /\ uploaded = <<>>
    /\ run_count = 0
    /\ events = 0
    /\ pc = "idle"
    /\ received = <<>>
    /\ thinking_buffer = <<>>
    /\ slide_content = <<>>
    /\ mode = "THINKING"
    /\ msgs = {}
    /\ status_box = "none"
    /\ opens = 0
    /\ saves = 0
    /\ out = NoDoc
    /\ prs = NoDoc
    /\ modified_text = <<>>
    /\ text1 = <<>>
    /\ text2 = <<>>

NextTwoSessions ==
    \E s \in SessionIds :
        \/ \E file \in UploadFiles : SessionUpload(s, file)
        \/ SessionUploadNew(s)
        \/ \E content \in SessionPayloads : SessionPatch(s, content)

SpecTwoSessions == InitTwoSessions /\ [][NextTwoSessions]_vars

\* C18: with two sessions on one server, the document a session's patch pass
\* opens is the deck this same session uploaded.
C18_PatchOpensOwnUpload ==
    \A s \in SessionIds :
        sessions[s].patched => sessions[s].opened = sessions[s].uploaded

====
